---- MODULE Spec2Model ----
(***************************************************************************)
(* RPC over RabbitMQ of the call-analytics backend:                        *)
(*   backend/app/rabbitmq.py          RabbitMQManager (connection manager, *)
(*                                    rpc_call, _on_response, _consume)    *)
(*   backend/app/services_gateway.py  ASRRpcGateway, SummarizationRpcGateway*)
(* All coroutines run on one asyncio event loop: a step of the model is    *)
(* the code a task runs between two suspension points (awaits).            *)
(***************************************************************************)
EXTENDS Integers, Sequences, FiniteSets, TLC

\* ---------------------------------------------------------------- bounds
MaxCalls == 2        \* facade calls issued by clients of this process
MaxStarts == 1       \* times start() is called
MaxInject == 1       \* replies put on the reply queue by other publishers
MaxLiveCalls == 1     \* client calls followed under fair scheduling
MaxForeign == 2      \* requests put on a work queue by other publishers

\* ------------------------------------------------------------- constants
ProducerPrefetchCount == 10    \* set_qos(prefetch_count=10), producer channel
ConsumerPrefetchCount_AsProducer == ProducerPrefetchCount
ConsumerPrefetchCount == 1     \* set_qos(prefetch_count=1), consumer channel

Calls == 1..MaxCalls
Ids == 1..MaxCalls             \* correlation ids this process can issue
NoId == 0                      \* a message without correlation id
NoReply == 0                   \* a message without reply_to
Queues == {"asr", "llm"}       \* asr_queue_name, llm_queue_name
Facades == {"asr", "llm"}      \* asr_gateway, summarization_gateway

QueueOf(f) == f                \* _call: queue_name of the facade's capability

VARIABLES
    disabled_reason,    \* _disabled_reason: "none" or the reason
    ready,              \* _ready (asyncio.Event): set or clear
    connection,         \* _connection: "none" | "open"
    producer_channel,   \* _producer_channel: "none" | "open"
    consumer_channel,   \* _consumer_channel: "none" | "open"
    callback_queue,     \* _callback_queue: "none" | "open"
    consuming,          \* consumers registered at the broker: reply, asr, llm
    mgr,                \* the task running start/close/disable: [op, pc]
    starts,             \* number of start() calls so far (connection generation)
    futures,            \* _futures: correlation id -> call owning the future
    nextId,             \* next fresh correlation id (uuid4)
    registered,         \* correlation ids that have ever been a key of _futures
    call,               \* per client call: position, future, outcome
    workq,              \* broker: the two durable work queues
    replyq,             \* broker: messages on the exclusive reply queue; val
                        \*   names the request the payload was computed for
    cb,                 \* outcome of the latest _on_response invocation
    injected,           \* replies injected so far
    foreign,            \* foreign requests injected so far
    inflight,           \* deliveries being processed by _consume
    last,               \* the delivery whose _consume returned or raised last
    nextTag,            \* next delivery tag
    codec               \* one ASR request followed through both facade paths

mgrVars == <<disabled_reason, ready, connection, producer_channel,
             consumer_channel, callback_queue, consuming, mgr, starts>>
rpcVars == <<futures, nextId, registered, call>>
brokerVars == <<workq, replyq, cb, injected, foreign>>
workerVars == <<inflight, last, nextTag>>
vars == <<mgrVars, rpcVars, brokerVars, workerVars, codec>>

\* ------------------------------------------------------ manager: queries
\* is_available (rabbitmq.py:92-95)
is_available == disabled_reason = "none" /\ ready

Idle == [op |-> "none", pc |-> "idle"]

\* The producer channel has not been closed by close() (115-116).
ProducerUsable == producer_channel = "open"
\* The consumer channel object is open and not being closed by close().
ConsumerUsable == consumer_channel = "open" /\ mgr.pc # "close_consumer"
\* The reply queue exists at the broker (declared, delete not completed).
ReplyQueueLive == callback_queue = "open"

\* ------------------------------------------------------- manager: start
\* start(), lines 55-58: reset the flags, then await connect_robust.
Start ==
    /\ mgr = Idle
    /\ connection = "none"
    /\ starts < MaxStarts
    /\ starts' = starts + 1
    /\ disabled_reason' = "none"
    /\ ready' = FALSE
    /\ mgr' = [op |-> "start", pc |-> "connect"]
    /\ UNCHANGED <<connection, producer_channel, consumer_channel,
                   callback_queue, consuming>>
    /\ UNCHANGED <<rpcVars, brokerVars, workerVars, codec>>

\* The calls blocked in ensure_ready are woken by _ready.set().
WakeWaiters(cs) ==
    [c \in Calls |-> IF cs[c].pc = "wait_ready"
                     THEN [cs[c] EXCEPT !.pc = "woken"] ELSE cs[c]]

\* start(), lines 58-85: the code between two awaits, one step per await.
StartStep ==
    /\ mgr.op = "start"
    /\ \/ /\ mgr.pc = "connect"                       \* 58 returned
          /\ connection' = "open"
          /\ mgr' = [mgr EXCEPT !.pc = "channel_producer"]
          /\ UNCHANGED <<producer_channel, callback_queue, consumer_channel,
                         consuming, ready, call>>
       \/ /\ mgr.pc = "channel_producer"              \* 61 returned
          /\ producer_channel' = "open"
          /\ mgr' = [mgr EXCEPT !.pc = "declare_reply"]
          /\ UNCHANGED <<connection, callback_queue, consumer_channel,
                         consuming, ready, call>>
       \/ /\ mgr.pc = "declare_reply"                 \* 62-66 returned
          /\ callback_queue' = "open"
          /\ mgr' = [mgr EXCEPT !.pc = "consume_reply"]
          /\ UNCHANGED <<connection, producer_channel, consumer_channel,
                         consuming, ready, call>>
       \/ /\ mgr.pc = "consume_reply"                 \* 67 returned
          /\ consuming' = consuming \cup {"reply"}
          /\ mgr' = [mgr EXCEPT !.pc = "channel_consumer"]
          /\ UNCHANGED <<connection, producer_channel, callback_queue,
                         consumer_channel, ready, call>>
       \/ /\ mgr.pc = "channel_consumer"              \* 70 returned
          /\ consumer_channel' = "open"
          /\ mgr' = [mgr EXCEPT !.pc = "consume_asr"]
          /\ UNCHANGED <<connection, producer_channel, callback_queue,
                         consuming, ready, call>>
       \/ /\ mgr.pc = "consume_asr"                   \* 71-77 returned
          /\ consuming' = consuming \cup {"asr"}
          /\ mgr' = [mgr EXCEPT !.pc = "consume_llm"]
          /\ UNCHANGED <<connection, producer_channel, callback_queue,
                         consumer_channel, ready, call>>
       \/ /\ mgr.pc = "consume_llm"                   \* 79-85 returned
          /\ consuming' = consuming \cup {"llm"}
          /\ ready' = TRUE
          /\ call' = WakeWaiters(call)
          /\ mgr' = Idle
          /\ UNCHANGED <<connection, producer_channel, callback_queue,
                         consumer_channel>>
    /\ UNCHANGED <<disabled_reason, starts, futures, nextId, registered>>
    /\ UNCHANGED <<brokerVars, workerVars, codec>>

\* start(): an awaited broker operation raises; the error propagates and the
\* fields assigned so far stay as they are.
StartFail ==
    /\ mgr.op = "start"
    /\ mgr' = Idle
    /\ UNCHANGED <<disabled_reason, ready, connection, producer_channel,
                   consumer_channel, callback_queue, consuming, starts>>
    /\ UNCHANGED <<rpcVars, brokerVars, workerVars, codec>>

\* ------------------------------------------------ manager: close, disable
NextClosePc_SkipConnection(cbq, prod, cons, conn) ==
    IF cbq # "none" THEN "delete_reply"
    ELSE IF prod # "none" THEN "close_producer"
    ELSE IF cons # "none" THEN "close_consumer"
    ELSE "end"

\* close(), lines 110-124: the next teardown await, given the fields.
NextClosePc(cbq, prod, cons, conn) ==
    IF cbq # "none" THEN "delete_reply"
    ELSE IF prod # "none" THEN "close_producer"
    ELSE IF cons # "none" THEN "close_consumer"
    ELSE IF conn # "none" THEN "close_connection"
    ELSE "end"

CloseReady_Keep(pcNext, r) == r

\* close(), line 126: _ready.clear() once every teardown step is done.
CloseReady(pcNext, r) == IF pcNext = "end" THEN FALSE ELSE r

CloseNext(op, pcNext) == IF pcNext = "end" THEN Idle ELSE [op |-> op, pc |-> pcNext]

\* close() called (lines 108-111): runs up to its first await.
Close ==
    /\ mgr = Idle
    /\ LET n == NextClosePc(callback_queue, producer_channel,
                            consumer_channel, connection) IN
       /\ mgr' = CloseNext("close", n)
       /\ ready' = CloseReady(n, ready)
    /\ UNCHANGED <<disabled_reason, connection, producer_channel,
                   consumer_channel, callback_queue, consuming, starts>>
    /\ UNCHANGED <<rpcVars, brokerVars, workerVars, codec>>

\* disable(reason) called (lines 102-105): sets the reason, then close().
Disable ==
    /\ mgr = Idle
    /\ disabled_reason' = "reason"
    /\ LET n == NextClosePc(callback_queue, producer_channel,
                            consumer_channel, connection) IN
       /\ mgr' = CloseNext("disable", n)
       /\ ready' = CloseReady(n, ready)
    /\ UNCHANGED <<connection, producer_channel, consumer_channel,
                   callback_queue, consuming, starts>>
    /\ UNCHANGED <<rpcVars, brokerVars, workerVars, codec>>

\* close(): an awaited teardown operation returns; its field is set to None
\* and the code runs on to the next await or to _ready.clear().
CloseStep ==
    /\ mgr.op \in {"close", "disable"}
    /\ \/ /\ mgr.pc = "delete_reply"                  \* 111-112
          /\ callback_queue' = "none"
          /\ consuming' = consuming \ {"reply"}
          /\ replyq' = {}
          /\ UNCHANGED <<producer_channel, consumer_channel, connection>>
       \/ /\ mgr.pc = "close_producer"                \* 115-116
          /\ producer_channel' = "none"
          /\ UNCHANGED <<callback_queue, consumer_channel, connection,
                         consuming, replyq>>
       \/ /\ mgr.pc = "close_consumer"                \* 119-120
          /\ consumer_channel' = "none"
          /\ consuming' = consuming \ {"asr", "llm"}
          /\ UNCHANGED <<callback_queue, producer_channel, connection, replyq>>
       \/ /\ mgr.pc = "close_connection"              \* 123-124
          /\ connection' = "none"
          /\ UNCHANGED <<callback_queue, producer_channel, consumer_channel,
                         consuming, replyq>>
    /\ LET n == NextClosePc(callback_queue', producer_channel',
                            consumer_channel', connection') IN
       /\ mgr' = CloseNext(mgr.op, n)
       /\ ready' = CloseReady(n, ready)
    /\ UNCHANGED <<disabled_reason, starts, workq, cb, injected, foreign>>
    /\ UNCHANGED <<rpcVars, workerVars, codec>>

\* ------------------------------------------------------------ rpc client
FutDone(f) == f \in {"result", "exception", "cancelled"}    \* Future.done()

\* dict.pop(correlation_id, None) on _futures
Pop(m, id) == [k \in DOMAIN m \ {id} |-> m[k]]

RegisterFuture_Forgotten(m, id, c) == m
\* rpc_call, line 149: self._futures[correlation_id] = future
RegisterFuture(m, id, c) == [k \in DOMAIN m \cup {id} |-> IF k = id THEN c ELSE m[k]]

TimeoutPop_Keep(m, id) == m
\* rpc_call, line 176: the timeout path removes the slot
TimeoutPop(m, id) == Pop(m, id)

EnsureReadyRaises_Never == FALSE
\* ensure_ready, line 131: the disabled check that raises RuntimeError
EnsureReadyRaises == disabled_reason # "none"

\* The ways rpc_call raises a RuntimeError: ensure_ready (132), the channel
\* check (144), and publish on a channel that was closed (aiormq's
\* ChannelInvalidStateError is a RuntimeError).
IsRuntimeError(r) == r \in {"RuntimeError:disabled", "RuntimeError:not_initialized",
                            "RuntimeError:channel"}

\* What a facade makes of the end of its rpc_call (services_gateway.py
\* _call and the callers of _call): the next position and the outcome.
\*   r: how rpc_call ended; e: the envelope it returned, if any.
FacadeOutcome(f, r, e) ==
    CASE r = "TimeoutError" -> [pc |-> "done", out |-> "HTTP504"]       \* 102-103, 186-187
      [] IsRuntimeError(r) ->
            IF f = "asr" THEN [pc |-> "direct", out |-> "none"]         \* 61-63, 85-87
            ELSE [pc |-> "done", out |-> "RuntimeError"]
      [] r = "returned" ->
            IF e = "error" THEN [pc |-> "done", out |-> "HTTP502_error"]   \* 105-108, 189-192
            ELSE IF f = "asr" /\ e \in {"ok_null", "ok_missing"}
                 THEN [pc |-> "done", out |-> "HTTP502_empty"]          \* 110-112
            ELSE IF f = "llm" /\ e = "ok_missing"
                 THEN [pc |-> "done", out |-> "HTTP502_empty"]          \* 194-195
            \* 196: _call returns None; health() (172-173) returns it as is
            ELSE IF e = "ok_null" THEN [pc |-> "done", out |-> "null_result"]
            ELSE [pc |-> "done", out |-> "ok"]
      [] OTHER -> [pc |-> "done", out |-> r]     \* any other exception propagates

\* The error string of a response envelope: the workers put str(exc) or the
\* unknown-action text under "error" (rabbitmq.py 237, 275-279, 321-325).
ErrorOf(e) == IF e = "error" THEN "str(exc)" ELSE "none"

\* The detail of the HTTPException a facade raises (services_gateway.py
\* 103, 107-108, 112 and 187, 191-192, 195).
Detail_Generic(f, out, e) ==
    IF out \in {"HTTP504", "HTTP502_error", "HTTP502_empty"}
    THEN (IF f = "asr" THEN "ASR task failed" ELSE "LLM task failed")
    ELSE "none"
Detail(f, out, e) ==
    CASE out = "HTTP504" ->
            IF f = "asr" THEN "ASR request timed out" ELSE "LLM request timed out"
      [] out = "HTTP502_error" -> ErrorOf(e)          \* envelope.get("error", ...)
      [] out = "HTTP502_empty" ->
            IF f = "asr" THEN "ASR task returned empty result"
            ELSE "LLM task returned empty result"
      [] OTHER -> "none"

\* What the caller of a facade can tell a failure by: the exception type and,
\* for an HTTPException, its status code (services_gateway.py 103, 108, 112,
\* 187, 192, 195); any other exception leaves the facade as it left rpc_call.
Reported(out) ==
    CASE out = "HTTP504" -> <<"HTTPException", 504>>
      [] out \in {"HTTP502_error", "HTTP502_empty", "HTTP502_direct"} ->
            <<"HTTPException", 502>>
      [] out \in {"RuntimeError", "JSONDecodeError", "AMQPError", "CancelledError"} ->
            <<out, 0>>
      [] OTHER -> <<"none", 0>>

EndRpc_Never(cr, r) == cr
\* rpc_call ends with r; the facade that called it carries on.
EndRpc(cr, r) ==
    LET fo == FacadeOutcome(cr.facade, r, cr.env) IN
    [cr EXCEPT !.rpc = r, !.pc = fo.pc, !.out = fo.out,
               !.detail = Detail(cr.facade, fo.out, cr.env)]

Request(id) == [cid |-> id, reply_to |-> starts, body |-> "object"]

\* rpc_call, lines 143-170: from the channel check to the await of publish.
Uuid4_Repeats(n) == IF n > 1 THEN n - 1 ELSE n
\* rpc_call, line 146: str(uuid.uuid4()), an id no earlier call was given;
\* n counts the ids drawn so far.
Uuid4(n) == n

RpcAfterReady(c, f) ==
    IF producer_channel = "none" \/ callback_queue = "none"
    THEN /\ call' = [call EXCEPT ![c] = EndRpc([call[c] EXCEPT !.facade = f],
                                               "RuntimeError:not_initialized")]
         /\ UNCHANGED <<futures, nextId, registered, workq>>
    ELSE LET id == Uuid4(nextId) IN
         /\ nextId' = nextId + 1
         /\ futures' = RegisterFuture(futures, id, c)
         /\ registered' = registered \cup DOMAIN futures'
         /\ workq' = [workq EXCEPT ![QueueOf(f)] = Append(@, Request(id))]
         /\ call' = [call EXCEPT ![c] = [@ EXCEPT !.facade = f, !.id = id,
                                           !.fut = "pending", !.pc = "publishing"]]

\* rpc_call, lines 142-170 (ensure_ready, lines 129-133, included).
RpcEnter(c, f) ==
    IF EnsureReadyRaises
    THEN /\ call' = [call EXCEPT ![c] = EndRpc([call[c] EXCEPT !.facade = f],
                                               "RuntimeError:disabled")]
         /\ UNCHANGED <<futures, nextId, registered, workq>>
    ELSE IF ~ready
    THEN /\ call' = [call EXCEPT ![c] = [@ EXCEPT !.facade = f, !.pc = "wait_ready"]]
         /\ UNCHANGED <<futures, nextId, registered, workq>>
    ELSE RpcAfterReady(c, f)

\* A facade operation is called. ASR (43-50, 67-74): direct execution when
\* the manager is unavailable, else _call; LLM (145-173): always _call.
FacadeCall(c, f) ==
    /\ call[c].pc = "idle"
    /\ \A b \in Calls : b < c => call[b].pc # "idle"     \* calls are numbered as issued
    /\ IF f = "asr" /\ ~is_available
       THEN /\ call' = [call EXCEPT ![c] = [@ EXCEPT !.facade = f, !.pc = "direct"]]
            /\ UNCHANGED <<futures, nextId, registered, workq>>
       ELSE RpcEnter(c, f)
    /\ UNCHANGED <<mgrVars, replyq, cb, injected, foreign, workerVars, codec>>

\* ensure_ready, line 133 returns: the task woken by _ready.set() resumes.
RpcResume(c) ==
    /\ call[c].pc = "woken"
    /\ RpcAfterReady(c, call[c].facade)
    /\ UNCHANGED <<mgrVars, replyq, cb, injected, foreign, workerVars, codec>>

\* rpc_call, lines 167-172: the awaited publish returns; wait_for starts.
PublishReturn(c) ==
    /\ call[c].pc = "publishing"
    /\ call' = [call EXCEPT ![c].pc = "waiting"]
    /\ UNCHANGED <<mgrVars, futures, nextId, registered, brokerVars, workerVars, codec>>

\* rpc_call, line 167: the awaited publish raises because the channel was
\* torn down under it; aiormq raises a RuntimeError subclass or an AMQPError.
PublishRaise(c, e) ==
    /\ call[c].pc = "publishing"
    /\ ~ProducerUsable
    /\ call' = [call EXCEPT ![c] = EndRpc(@, e)]
    /\ UNCHANGED <<mgrVars, futures, nextId, registered, brokerVars, workerVars, codec>>

\* rpc_call, line 174: wait_for returns the result or raises the exception
\* the future was resolved with.
RpcReturn(c) ==
    /\ call[c].pc = "waiting"
    /\ call[c].fut \in {"result", "exception"}
    /\ call' = [call EXCEPT ![c] =
                  EndRpc(call[c], IF call[c].fut = "result" THEN "returned"
                                  ELSE "JSONDecodeError")]
    /\ UNCHANGED <<mgrVars, futures, nextId, registered, brokerVars, workerVars, codec>>

\* asyncio.wait_for, line 174: the timeout expires; the future is cancelled
\* and the waiting task is scheduled to resume.
TimerFire(c) ==
    /\ call[c].pc = "waiting"
    /\ call[c].fut = "pending"
    /\ call' = [call EXCEPT ![c] = [@ EXCEPT !.fut = "cancelled", !.pc = "timing_out"]]
    /\ UNCHANGED <<mgrVars, futures, nextId, registered, brokerVars, workerVars, codec>>

\* rpc_call, lines 175-184: the task resumes with TimeoutError.
RpcTimeout(c) ==
    /\ call[c].pc = "timing_out"
    /\ futures' = TimeoutPop(futures, call[c].id)
    /\ call' = [call EXCEPT ![c] = EndRpc(@, "TimeoutError")]
    /\ UNCHANGED <<mgrVars, nextId, registered, brokerVars, workerVars, codec>>

\* The task awaiting rpc_call is cancelled (client disconnect, shutdown):
\* CancelledError is raised at the await it is suspended in (167 or 174);
\* wait_for cancels the future it was waiting for.
TaskCancel(c) ==
    /\ call[c].pc \in {"publishing", "waiting"}
    /\ call[c].fut = "pending"
    /\ call' = [call EXCEPT ![c] =
                  EndRpc(IF call[c].pc = "waiting"
                         THEN [call[c] EXCEPT !.fut = "cancelled"] ELSE call[c],
                         "CancelledError")]
    /\ UNCHANGED <<mgrVars, futures, nextId, registered, brokerVars, workerVars, codec>>

\* _direct_transcribe_file / _direct_transcribe_batch (115-139): the service
\* runs in-process and returns, or raises and is wrapped in HTTP 502.
DirectDone(c, r) ==
    /\ call[c].pc = "direct"
    /\ call' = [call EXCEPT ![c] = [@ EXCEPT !.pc = "done",
                   !.out = IF r = "ok" THEN "direct_ok" ELSE "HTTP502_direct",
                   !.detail = IF r = "ok" THEN "none" ELSE "ASR task failed: str(exc)"]]
    /\ UNCHANGED <<mgrVars, futures, nextId, registered, brokerVars, workerVars, codec>>

\* ------------------------------------------------- reply-consuming callback
ReplyBodies == {"object", "nonobject", "badjson", "badutf8"}
Envelopes == {"ok", "ok_null", "ok_missing", "error"}

\* The key _on_response looks the pending slot up by (192): the reply's
\* correlation id.
SlotKey_Oldest(m) ==
    IF m.cid = NoId \/ DOMAIN futures = {} THEN m.cid
    ELSE CHOOSE id \in DOMAIN futures : \A other \in DOMAIN futures : id <= other
SlotKey(m) == m.cid

\* _on_response (186-219): runs without suspending.
OnResponse(m) ==
    /\ m \in replyq
    /\ "reply" \in consuming
    /\ replyq' = replyq \ {m}
    /\ IF m.cid = NoId                                            \* 188-190
       THEN /\ cb' = [id |-> m.cid, what |-> "dropped_no_id"]
            /\ UNCHANGED <<futures, call>>
       ELSE IF SlotKey(m) \notin DOMAIN futures                   \* 192-199
       THEN /\ cb' = [id |-> m.cid, what |-> "dropped_unexpected"]
            /\ UNCHANGED <<futures, call>>
       ELSE LET c == futures[SlotKey(m)] IN
            /\ futures' = Pop(futures, SlotKey(m))                \* 192
            /\ CASE m.body = "badutf8" ->                         \* 202: not a JSONDecodeError
                      /\ cb' = [id |-> m.cid, what |-> "raised_UnicodeDecodeError"]
                      /\ UNCHANGED call
                 [] m.body = "badjson" ->                         \* 203-211
                      IF FutDone(call[c].fut)
                      THEN /\ cb' = [id |-> m.cid, what |-> "raised_InvalidStateError"]
                           /\ UNCHANGED call
                      ELSE /\ cb' = [id |-> m.cid, what |-> "set_exception"]
                           /\ call' = [call EXCEPT ![c].fut = "exception"]
                 [] m.body = "nonobject" ->                       \* 213-217: payload.keys()
                      IF FutDone(call[c].fut)
                      THEN /\ cb' = [id |-> m.cid, what |-> "skipped_done"]
                           /\ UNCHANGED call
                      ELSE /\ cb' = [id |-> m.cid, what |-> "raised_AttributeError"]
                           /\ UNCHANGED call
                 [] OTHER ->                                      \* 213-219
                      IF FutDone(call[c].fut)
                      THEN /\ cb' = [id |-> m.cid, what |-> "skipped_done"]
                           /\ UNCHANGED call
                      ELSE /\ cb' = [id |-> m.cid, what |-> "set_result"]
                           /\ call' = [call EXCEPT ![c] =
                                         [@ EXCEPT !.fut = "result", !.env = m.env,
                                                   !.val = m.val]]
    /\ UNCHANGED <<mgrVars, nextId, registered, workq, injected, foreign, workerVars, codec>>

\* Another publisher puts a message on the reply queue: the duplicate of a
\* reply (a redelivered job answered twice), a reply that comes late, or a
\* body this process cannot decode.
InjectReply(id, b) ==
    /\ injected < MaxInject
    /\ ReplyQueueLive
    /\ id \in {NoId} \cup (1..(nextId - 1))
    /\ injected' = injected + 1
    /\ replyq' = replyq \cup {[cid |-> id, body |-> b,
                               env |-> IF b = "object" THEN "ok" ELSE "none",
                               val |-> id]}
    /\ UNCHANGED <<mgrVars, rpcVars, workq, cb, foreign, workerVars, codec>>

\* A worker of the pool (an instance of the dispatch loop below, in this or
\* in another process) consumes the head of a work queue and publishes the
\* response envelope e to the request's reply address; the broker routes it
\* to the reply queue if that queue still exists.
WorkerReplies(q, e) ==
    /\ workq[q] # <<>>
    /\ LET m == Head(workq[q]) IN
       /\ workq' = [workq EXCEPT ![q] = Tail(@)]
       /\ replyq' = IF ReplyQueueLive /\ m.reply_to = starts
                    THEN replyq \cup {[cid |-> m.cid, body |-> "object", env |-> e,
                                        val |-> m.cid]}
                    ELSE replyq
    /\ UNCHANGED <<mgrVars, rpcVars, cb, injected, foreign, workerVars, codec>>

\* ------------------------------------------------------ worker dispatch loop
RequestBodies == {"object", "badjson", "badutf8"}
HandlerOutcomes == {"ok", "raise"}

\* A client (rpc_call of this or of another process, or any publisher) puts a
\* request on a work queue. rt: no reply address, or the reply queue declared
\* by the rt-th start() (only the latest can still exist). Each request
\* carries a correlation id of its own.
InjectRequest(q, rt, b) ==
    /\ foreign < MaxForeign
    /\ rt \in {NoReply} \cup (1..starts)
    /\ foreign' = foreign + 1
    /\ workq' = [workq EXCEPT ![q] = Append(@, [cid |-> foreign', reply_to |-> rt, body |-> b])]
    /\ UNCHANGED <<mgrVars, rpcVars, replyq, cb, injected, workerVars, codec>>

\* Deliveries of queue q the broker counts against the consumer's prefetch.
Unacked(q) == {d \in inflight : d.q = q /\ d.gen = starts /\ d.ack = "none"}

\* message.process(), line 226: what leaving the context manager does to the
\* delivery. normal exit: basic_ack; exit by exception: basic_reject. On a
\* channel that is being closed the frame may or may not reach the broker; on
\* a closed channel it does not.
AckOutcomes(d, normal) ==
    IF d.gen = starts /\ consumer_channel = "open"
    THEN (IF ConsumerUsable THEN {} ELSE {"ack_failed"})
            \cup {IF normal THEN "acked" ELSE "rejected"}
    ELSE {"ack_failed"}

StartReply_AckFirst(d, h) ==
    [d EXCEPT !.pc = "replying", !.hres = h, !.pub = "started", !.ack = "acked"]
\* _consume, lines 239-249: the response is handed to publish, which is awaited;
\* the delivery stays unacknowledged inside message.process().
StartReply(d, h) == [d EXCEPT !.pc = "replying", !.hres = h, !.pub = "started"]

\* The envelope json.dumps(response) carries (234-237).
ResponseEnv(h) == IF h = "ok" THEN "ok" ELSE "error"

Routed_NoCorrelation(d, h) ==
    IF ReplyQueueLive /\ d.reply_to = starts
    THEN {[cid |-> NoId, body |-> "object", env |-> ResponseEnv(h), val |-> d.cid]}
    ELSE {}

\* The broker routes a published reply to this process's reply queue when
\* the routing key names the live reply queue; otherwise it is dropped.
Routed(d, h) ==
    IF ReplyQueueLive /\ d.reply_to = starts
    THEN {[cid |-> d.cid, body |-> "object", env |-> ResponseEnv(h), val |-> d.cid]}
    ELSE {}

\* _consume is over for delivery d.
Finished(d, h, p, a) == [d EXCEPT !.pc = "done", !.tag = 0, !.hres = h, !.pub = p, !.ack = a]

Decodes_Always(b) == TRUE
\* _consume, lines 227-231: json.loads(message.body.decode("utf-8")) returns.
Decodes(b) == b = "object"

\* The broker delivers the head of a work queue; aio_pika starts _consume,
\* which runs to the await of the handler (226-234) or returns (229-231) or
\* raises (228, a body that is not UTF-8).
Deliver(q) ==
    /\ q \in consuming
    /\ consumer_channel = "open"
    /\ workq[q] # <<>>
    /\ Cardinality(Unacked(q)) < ConsumerPrefetchCount
    /\ LET m == Head(workq[q])
           d == [tag |-> nextTag, q |-> q, gen |-> starts, cid |-> m.cid,
                 reply_to |-> m.reply_to, body |-> m.body,
                 pc |-> "handling", hres |-> "none", pub |-> "none", ack |-> "none"]
       IN
       /\ workq' = [workq EXCEPT ![q] = Tail(@)]
       /\ nextTag' = nextTag + 1
       /\ IF Decodes(m.body)
          THEN /\ inflight' = inflight \cup {d}
               /\ UNCHANGED last
          ELSE /\ \E a \in AckOutcomes(d, m.body = "badjson") :
                     last' = Finished(d, "none", "none", a)
               /\ UNCHANGED inflight
    /\ UNCHANGED <<mgrVars, rpcVars, replyq, cb, injected, foreign, codec>>

\* _consume, lines 234-249: the handler returns or raises; the response is
\* published when there is a reply address and a producer channel, else the
\* context manager is left at once.
HandlerDone(d, h) ==
    /\ d \in inflight
    /\ d.pc = "handling"
    /\ IF d.reply_to # NoReply /\ producer_channel # "none"       \* 239
       THEN /\ inflight' = (inflight \ {d}) \cup {StartReply(d, h)}
            /\ replyq' = replyq \cup Routed(d, h)
            /\ UNCHANGED last
       ELSE /\ \E a \in AckOutcomes(d, TRUE) :
                  last' = Finished(d, h, "skipped", a)
            /\ inflight' = inflight \ {d}
            /\ UNCHANGED replyq
    /\ UNCHANGED <<mgrVars, rpcVars, workq, cb, injected, foreign, nextTag, codec>>

\* _consume, lines 246-249: the awaited publish returns and the context
\* manager acknowledges the delivery.
ReplyDone(d) ==
    /\ d \in inflight
    /\ d.pc = "replying"
    /\ \E a \in AckOutcomes(d, TRUE) :
          last' = Finished(d, d.hres, "done", IF d.ack = "none" THEN a ELSE d.ack)
    /\ inflight' = inflight \ {d}
    /\ UNCHANGED <<mgrVars, rpcVars, brokerVars, nextTag, codec>>

\* _consume, lines 246-249: the awaited publish raises because the producer
\* channel was torn down under it; the context manager rejects the delivery.
ReplyRaise(d) ==
    /\ d \in inflight
    /\ d.pc = "replying"
    /\ ~ProducerUsable
    /\ \E a \in AckOutcomes(d, FALSE) :
          last' = Finished(d, d.hres, "failed", IF d.ack = "none" THEN a ELSE d.ack)
    /\ inflight' = inflight \ {d}
    /\ UNCHANGED <<mgrVars, rpcVars, brokerVars, nextTag, codec>>

\* ------------------------------------------- ASR facade: the two paths
\* Python values, tagged by type. A float n stands for the float n.0.
PyNone == [t |-> "none"]
PyStr(s) == [t |-> "str", s |-> s]
PyBool(b) == [t |-> "bool", b |-> b]
PyInt(i) == [t |-> "int", i |-> i]
PyFloat(n) == [t |-> "float", n |-> n]
PyList(items) == [t |-> "list", items |-> items]
PyDict(members) == [t |-> "dict", members |-> members]
PyModel(cls, fields) == [t |-> "model", cls |-> cls, fields |-> fields]
Unset == [t |-> "unset"]
Invalid == [t |-> "ValidationError"]
HttpError(code, detail) == [t |-> "HTTPException", code |-> code, detail |-> detail]

\* JSON texts, as their syntax trees.
NoWire == [j |-> "none"]
JsonTypeError == [j |-> "TypeError"]

\* BaseModel.model_dump(): a model becomes the dict of its fields, models
\* inside lists included; every other value is kept.
RECURSIVE ModelDump(_)
ModelDump(v) ==
    CASE v.t = "model" ->
            PyDict([f \in DOMAIN v.fields |-> ModelDump(v.fields[f])])
      [] v.t = "list" ->
            PyList([i \in DOMAIN v.items |-> ModelDump(v.items[i])])
      [] OTHER -> v

\* What json.dumps accepts: None, bool, str, int, float, and lists and
\* dicts of these. A model instance is not serializable.
RECURSIVE Serializable(_)
Serializable(v) ==
    CASE v.t \in {"none", "bool", "str", "int", "float"} -> TRUE
      [] v.t = "list" -> \A i \in DOMAIN v.items : Serializable(v.items[i])
      [] v.t = "dict" -> \A k \in DOMAIN v.members : Serializable(v.members[k])
      [] OTHER -> FALSE

\* A float is written with a decimal point, an int without one.
DumpsNumber(v) ==
    IF v.t = "float" THEN [j |-> "number", digits |-> v.n, point |-> TRUE]
    ELSE [j |-> "number", digits |-> v.i, point |-> FALSE]

RECURSIVE Encode(_)
Encode(v) ==
    CASE v.t = "none" -> [j |-> "null"]
      [] v.t = "bool" -> [j |-> "bool", b |-> v.b]
      [] v.t = "str" -> [j |-> "string", s |-> v.s]
      [] v.t \in {"int", "float"} -> DumpsNumber(v)
      [] v.t = "list" ->
            [j |-> "array", items |-> [i \in DOMAIN v.items |-> Encode(v.items[i])]]
      [] v.t = "dict" ->
            [j |-> "object",
             members |-> [k \in DOMAIN v.members |-> Encode(v.members[k])]]

\* json.dumps(payload, ensure_ascii=False) (151, 240).
JsonDumps(v) == IF Serializable(v) THEN Encode(v) ELSE JsonTypeError

\* A number with a decimal point is read as a float, one without as an int.
LoadsNumber_AsInt(x) == PyInt(x.digits)
LoadsNumber(x) == IF x.point THEN PyFloat(x.digits) ELSE PyInt(x.digits)

\* json.loads(message.body.decode("utf-8")) (202, 228) of a well-formed text.
RECURSIVE JsonLoads(_)
JsonLoads(x) ==
    CASE x.j = "null" -> PyNone
      [] x.j = "bool" -> PyBool(x.b)
      [] x.j = "string" -> PyStr(x.s)
      [] x.j = "number" -> LoadsNumber(x)
      [] x.j = "array" ->
            PyList([i \in DOMAIN x.items |-> JsonLoads(x.items[i])])
      [] x.j = "object" ->
            PyDict([k \in DOMAIN x.members |-> JsonLoads(x.members[k])])

\* models.py: the declared type of every field of the ASR and LLM models.
Schema(cls) ==
    CASE cls = "TranscriptionRequest" ->
            [language |-> "optstr", task |-> "str", word_timestamps |-> "bool",
             initial_prompt |-> "optstr"]
      [] cls = "TranscriptionResponse" ->
            [text |-> "str", language |-> "str", duration |-> "float",
             segments |-> "optlistdict", words |-> "optlistdict"]
      [] cls = "BatchTranscriptionResponse" ->
            [results |-> "list:TranscriptionResponse", total_files |-> "int",
             successful_files |-> "int", failed_files |-> "int",
             errors |-> "listdict"]
      [] cls = "SummarizationRequest" ->
            [text |-> "str1", instructions |-> "optstr", focus |-> "optstr",
             format |-> "SummaryFormat", temperature |-> "optfloat",
             max_tokens |-> "optint"]
      [] cls = "SummarizationResponse" ->
            [summary |-> "str", model |-> "str", prompt_tokens |-> "optint",
             completion_tokens |-> "optint", duration_ms |-> "optfloat"]
      [] cls = "CallSegment" -> [speaker |-> "str", text |-> "str"]
      [] cls = "CallSummarizationRequest" ->
            [transcript_text |-> "str1", client_name |-> "optstr",
             status |-> "optstr", action_items |-> "liststr",
             decision |-> "optstr", segments |-> "list:CallSegment"]
      [] cls = "CallSummaryDetails" ->
            [category |-> "str", purpose |-> "str", discussionPoints |-> "liststr",
             actionItems |-> "liststr", decisionMade |-> "str", createdAt |-> "str",
             managerRecommendations |-> "optliststr"]
      [] cls = "SentimentDetails" ->
            [overall |-> "str", tone |-> "liststr", drivers |-> "liststr",
             recommendations |-> "liststr", managerRecommendations |-> "optliststr"]
      [] cls = "ScorecardEntry" ->
            [title |-> "str", score |-> "float", target |-> "float",
             description |-> "str"]
      [] cls = "CallSummarizationResponse" ->
            [callSummary |-> "CallSummaryDetails", sentiment |-> "SentimentDetails",
             scorecards |-> "list:ScorecardEntry"]
      [] cls = "ChecklistCriterionInput" ->
            [id |-> "str", text |-> "str", description |-> "optstr", type |-> "optstr"]
      [] cls = "ChecklistCategoryInput" ->
            [id |-> "str", name |-> "str", description |-> "optstr",
             criteria |-> "list:ChecklistCriterionInput"]
      [] cls = "ChecklistInput" ->
            [id |-> "str", name |-> "str", description |-> "optstr",
             categories |-> "list:ChecklistCategoryInput"]
      [] cls = "ChecklistAnalysisResult" ->
            [criterion_id |-> "str", category_id |-> "str", score |-> "score",
             confidence |-> "int", explanation |-> "str", needs_review |-> "bool"]
      [] cls = "ChecklistAnalysisRequest" ->
            [transcript_text |-> "str1", checklist |-> "ChecklistInput",
             client_name |-> "optstr", status |-> "optstr",
             action_items |-> "liststr", decision |-> "optstr",
             segments |-> "list:CallSegment"]

\* models.py: the default of every field; a required field has none.
Default(cls) ==
    CASE cls = "TranscriptionRequest" ->
            [language |-> PyNone, task |-> PyStr("transcribe"),
             word_timestamps |-> PyBool(FALSE), initial_prompt |-> PyNone]
      [] cls = "TranscriptionResponse" ->
            [text |-> Invalid, language |-> Invalid, duration |-> Invalid,
             segments |-> PyNone, words |-> PyNone]
      [] cls = "BatchTranscriptionResponse" ->
            [results |-> Invalid, total_files |-> Invalid,
             successful_files |-> Invalid, failed_files |-> Invalid,
             errors |-> PyList(<<>>)]
      \* the LLM models: Field(None, ...) for every Optional field,
      \* default_factory=list for the request lists, PARAGRAPH for format
      [] OTHER ->
            [f \in DOMAIN Schema(cls) |->
                CASE Schema(cls)[f] \in {"optstr", "optint", "optfloat", "optliststr"}
                        -> PyNone
                  [] Schema(cls)[f] = "SummaryFormat" -> PyStr("paragraph")
                  [] cls \in {"CallSummarizationRequest", "ChecklistAnalysisRequest"}
                     /\ f \in {"action_items", "segments"} -> PyList(<<>>)
                  [] OTHER -> Invalid]

\* The classes a field can hold, and the element class of a list of models.
ModelClasses == {"CallSummaryDetails", "SentimentDetails", "ChecklistInput"}
ListTypes == {"list:TranscriptionResponse", "list:CallSegment",
              "list:ScorecardEntry", "list:ChecklistCriterionInput",
              "list:ChecklistCategoryInput"}
ElemClass(ty) ==
    CASE ty = "list:TranscriptionResponse" -> "TranscriptionResponse"
      [] ty = "list:CallSegment" -> "CallSegment"
      [] ty = "list:ScorecardEntry" -> "ScorecardEntry"
      [] ty = "list:ChecklistCriterionInput" -> "ChecklistCriterionInput"
      [] ty = "list:ChecklistCategoryInput" -> "ChecklistCategoryInput"

IsListOfStrs(v) ==
    v.t = "list" /\ \A i \in DOMAIN v.items : v.items[i].t = "str"

IsListOfDicts(v) ==
    v.t = "list" /\ \A i \in DOMAIN v.items : v.items[i].t = "dict"

\* Pydantic validation of a value against a field type, and of a dict (or a
\* model instance) against a model class: model_validate, and the
\* constructor called with keyword arguments.
RECURSIVE Coerce(_, _), ModelValidate(_, _)
Coerce(ty, v) ==
    CASE ty = "str" -> IF v.t = "str" THEN v ELSE Invalid
      [] ty = "str1" -> IF v.t = "str" /\ v.s # "" THEN v ELSE Invalid   \* min_length=1
      [] ty = "optstr" -> IF v.t \in {"none", "str"} THEN v ELSE Invalid
      [] ty = "bool" -> IF v.t = "bool" THEN v ELSE Invalid
      [] ty = "int" ->
            IF v.t = "int" THEN v
            ELSE IF v.t = "float" THEN PyInt(v.n) ELSE Invalid
      [] ty = "float" ->
            IF v.t = "float" THEN v
            ELSE IF v.t = "int" THEN PyFloat(v.i) ELSE Invalid
      [] ty = "listdict" -> IF IsListOfDicts(v) THEN v ELSE Invalid
      [] ty = "optlistdict" ->
            IF v.t = "none" \/ IsListOfDicts(v) THEN v ELSE Invalid
      [] ty = "optint" ->
            IF v.t \in {"none", "int"} THEN v
            ELSE IF v.t = "float" THEN PyInt(v.n) ELSE Invalid
      [] ty = "optfloat" ->
            IF v.t \in {"none", "float"} THEN v
            ELSE IF v.t = "int" THEN PyFloat(v.i) ELSE Invalid
      [] ty = "liststr" -> IF IsListOfStrs(v) THEN v ELSE Invalid
      [] ty = "optliststr" ->
            IF v.t = "none" \/ IsListOfStrs(v) THEN v ELSE Invalid
      [] ty = "SummaryFormat" ->
            IF v \in {PyStr("paragraph"), PyStr("bullet")} THEN v ELSE Invalid
      [] ty = "score" ->         \* Literal[0, 1, "?"]
            IF v \in {PyInt(0), PyInt(1), PyStr("?")} THEN v ELSE Invalid
      [] ty \in ModelClasses -> ModelValidate(ty, v)
      [] ty \in ListTypes ->
            IF v.t # "list" THEN Invalid
            ELSE LET items == [i \in DOMAIN v.items |->
                                ModelValidate(ElemClass(ty), v.items[i])]
                 IN IF \E i \in DOMAIN items : items[i] = Invalid
                    THEN Invalid ELSE PyList(items)

ModelValidate(cls, d) ==
    IF d.t = "model" THEN (IF d.cls = cls THEN d ELSE Invalid)
    ELSE IF d.t # "dict" THEN Invalid
    ELSE LET sch == Schema(cls)
             fs == [f \in DOMAIN sch |->
                      IF f \in DOMAIN d.members
                      THEN Coerce(sch[f], d.members[f])
                      ELSE Default(cls)[f]]
         IN IF \E f \in DOMAIN fs : fs[f] = Invalid
            THEN Invalid ELSE PyModel(cls, fs)

\* The requests a client can submit (TranscriptionRequest).
Requests ==
    {PyModel("TranscriptionRequest",
             [language |-> l, task |-> PyStr("transcribe"),
              word_timestamps |-> PyBool(w), initial_prompt |-> PyNone]) :
        l \in {PyNone, PyStr("ru")}, w \in BOOLEAN}

\* whisper_service.py 80-115: a segment and a word as the service builds them.
Word == PyDict([start |-> PyFloat(0), end |-> PyFloat(1), word |-> PyStr("w"),
                probability |-> PyFloat(1)])
Segment == PyDict([id |-> PyInt(0), start |-> PyFloat(0), end |-> PyFloat(2),
                   text |-> PyStr("w"), tokens |-> PyList(<<PyInt(7)>>),
                   words |-> PyNone])

\* whisper_service.py 181-187: the outputs of a successful transcribe_file.
Outputs ==
    {PyModel("TranscriptionResponse",
             [text |-> PyStr(x), language |-> PyStr("ru"), duration |-> PyFloat(d),
              segments |-> s, words |-> w]) :
        x \in {"", "w"}, d \in {0, 2},
        s \in {PyNone, PyList(<<>>), PyList(<<Segment>>)},
        w \in {PyNone, PyList(<<Word>>)}}

Operations == {"transcribe_file", "transcribe_batch"}
Paths == {"broker", "direct"}

\* The operations of SummarizationRpcGateway (services_gateway.py 145-173).
LlmOperations == {"summarize", "summarize_call", "score_checklist", "health"}

CallSegments == PyList(<<PyModel("CallSegment",
                                 [speaker |-> PyStr("Agent"), text |-> PyStr("hi")])>>)

\* The request a client gives to an LLM operation; health takes none.
LlmRequests(op) ==
    CASE op = "summarize" ->
            {PyModel("SummarizationRequest",
                     [text |-> PyStr("hello"), instructions |-> PyNone,
                      focus |-> PyNone, format |-> PyStr(f),
                      temperature |-> PyNone, max_tokens |-> m]) :
                f \in {"paragraph", "bullet"}, m \in {PyNone, PyInt(64)}}
      [] op = "summarize_call" ->
            {PyModel("CallSummarizationRequest",
                     [transcript_text |-> PyStr("hello"), client_name |-> PyNone,
                      status |-> PyNone, action_items |-> PyList(<<PyStr("call")>>),
                      decision |-> PyNone, segments |-> CallSegments])}
      [] op = "score_checklist" ->
            {PyModel("ChecklistAnalysisRequest",
                     [transcript_text |-> PyStr("hello"),
                      checklist |-> PyModel("ChecklistInput",
                         [id |-> PyStr("c"), name |-> PyStr("c"), description |-> PyNone,
                          categories |-> PyList(<<PyModel("ChecklistCategoryInput",
                             [id |-> PyStr("k"), name |-> PyStr("k"),
                              description |-> PyNone,
                              criteria |-> PyList(<<PyModel("ChecklistCriterionInput",
                                 [id |-> PyStr("q"), text |-> PyStr("q"),
                                  description |-> PyNone, type |-> PyNone])>>)])>>)]),
                      client_name |-> PyNone, status |-> PyNone,
                      action_items |-> PyList(<<>>), decision |-> PyNone,
                      segments |-> PyList(<<>>)])}
      [] op = "health" -> {Unset}

\* What the summarization service returns (summarization_service.py
\* 251-257, 263-267, 276-555, 780-811).
LlmOutputs(op) ==
    CASE op = "summarize" ->
            {PyModel("SummarizationResponse",
                     [summary |-> PyStr("s"), model |-> PyStr("gemma"),
                      prompt_tokens |-> t, completion_tokens |-> t,
                      duration_ms |-> d]) :
                t \in {PyNone, PyInt(1)}, d \in {PyNone, PyFloat(2)}}
      [] op = "summarize_call" ->
            {PyModel("CallSummarizationResponse",
                     [callSummary |-> PyModel("CallSummaryDetails",
                         [category |-> PyStr("c"), purpose |-> PyStr("p"),
                          discussionPoints |-> PyList(<<PyStr("d")>>),
                          actionItems |-> PyList(<<>>), decisionMade |-> PyStr("m"),
                          createdAt |-> PyStr("05.11.2026"),
                          managerRecommendations |-> PyNone]),
                      sentiment |-> PyModel("SentimentDetails",
                         [overall |-> PyStr("o"), tone |-> PyList(<<PyStr("t")>>),
                          drivers |-> PyList(<<>>), recommendations |-> PyList(<<>>),
                          managerRecommendations |-> PyList(<<PyStr("r")>>)]),
                      scorecards |-> PyList(<<PyModel("ScorecardEntry",
                         [title |-> PyStr("k"), score |-> PyFloat(3),
                          target |-> PyFloat(5), description |-> PyStr("x")])>>)])}
      [] op = "score_checklist" ->
            {PyList(<<PyModel("ChecklistAnalysisResult",
                        [criterion_id |-> PyStr("q"), category_id |-> PyStr("k"),
                         score |-> v, confidence |-> PyInt(50),
                         explanation |-> PyStr("e"), needs_review |-> PyBool(TRUE)])>>) :
                v \in {PyInt(1), PyStr("?")}}
      [] op = "health" ->
            {PyDict([status |-> PyStr("ready"), model |-> PyStr("gemma"),
                     endpoint |-> PyStr("http://ollama")])}

\* whisper_service.py 205-241: transcribe_batch of one file that succeeds.
ServiceResult(op, output) ==
    IF op = "transcribe_file" THEN output
    ELSE PyModel("BatchTranscriptionResponse",
                 [results |-> PyList(<<output>>), total_files |-> PyInt(1),
                  successful_files |-> PyInt(1), failed_files |-> PyInt(0),
                  errors |-> PyList(<<>>)])

ResponseClass(op) ==
    IF op = "transcribe_file" THEN "TranscriptionResponse"
    ELSE "BatchTranscriptionResponse"

\* services_gateway.py 56-60, 80-84: the payload of the request.
CallPayload(op, request) ==
    IF op = "transcribe_file"
    THEN PyDict([action |-> PyStr(op), audio_path |-> PyStr("a.wav"),
                 request |-> ModelDump(request)])
    ELSE PyDict([action |-> PyStr(op), audio_paths |-> PyList(<<PyStr("a.wav")>>),
                 request |-> ModelDump(request)])

\* services_gateway.py 150, 158, 166, 173: the payload of an LLM request.
LlmPayload_AsSummarize(op, request) ==
    PyDict([action |-> PyStr("summarize"), request |-> ModelDump(request)])
LlmPayload(op, request) ==
    CASE op = "summarize" ->
            PyDict([action |-> PyStr("summarize"), request |-> ModelDump(request)])
      [] op = "summarize_call" ->
            PyDict([action |-> PyStr("summarize_call"), request |-> ModelDump(request)])
      [] op = "score_checklist" ->
            PyDict([action |-> PyStr("score_checklist"), request |-> ModelDump(request)])
      [] op = "health" -> PyDict([action |-> PyStr("health")])

\* create_llm_handler 291-310: the request class of an action, and the ok
\* envelope the handler builds from what the service returned.
LlmRequestClass(action) ==
    CASE action = "summarize" -> "SummarizationRequest"
      [] action = "summarize_call" -> "CallSummarizationRequest"
      [] action = "score_checklist" -> "ChecklistAnalysisRequest"

LlmOkEnvelope(action, result) ==
    CASE action \in {"summarize", "summarize_call"} ->
            PyDict([status |-> PyStr("ok"), result |-> ModelDump(result)])
      [] action = "score_checklist" ->
            PyDict([status |-> PyStr("ok"),
                    result |-> PyList([i \in DOMAIN result.items |->
                                         ModelDump(result.items[i])])])
      [] action = "health" -> PyDict([status |-> PyStr("ok"), result |-> result])

\* create_asr_handler 262-270 with a service that succeeds.
OkEnvelope(result) ==
    PyDict([status |-> PyStr("ok"), result |-> ModelDump(result)])

ErrorEnvelope(error) == PyDict([status |-> PyStr("error"), error |-> PyStr(error)])

\* ASRRpcGateway._call 103-113 and model_validate (65, 89).
Unwrap(op, envelope) ==
    IF envelope.t # "dict" THEN HttpError(502, "ASR task failed")
    ELSE IF "status" \notin DOMAIN envelope.members
            \/ envelope.members["status"] # PyStr("ok")
    THEN HttpError(502, IF "error" \in DOMAIN envelope.members
                        THEN envelope.members["error"].s ELSE "ASR task failed")
    ELSE IF "result" \notin DOMAIN envelope.members
            \/ envelope.members["result"] = PyNone
    THEN HttpError(502, "ASR task returned empty result")
    ELSE ModelValidate(ResponseClass(op), envelope.members["result"])

\* SummarizationRpcGateway._call 175-196 and what each operation makes of
\* the result (151, 159, 167, 173).
LlmUnwrap(op, envelope) ==
    IF envelope.t # "dict" THEN [t |-> "AttributeError"]
    ELSE IF "status" \notin DOMAIN envelope.members
            \/ envelope.members["status"] # PyStr("ok")
    THEN HttpError(502, IF "error" \in DOMAIN envelope.members
                        THEN envelope.members["error"].s ELSE "LLM task failed")
    ELSE IF "result" \notin DOMAIN envelope.members
    THEN HttpError(502, "LLM task returned empty result")
    ELSE LET result == envelope.members["result"] IN
         CASE op = "summarize" -> ModelValidate("SummarizationResponse", result)
           [] op = "summarize_call" ->
                 ModelValidate("CallSummarizationResponse", result)
           [] op = "score_checklist" ->
                 IF result.t # "list" THEN [t |-> "TypeError"]
                 ELSE LET items == [i \in DOMAIN result.items |->
                                      ModelValidate("ChecklistAnalysisResult",
                                                    result.items[i])]
                      IN IF \E i \in DOMAIN items : items[i] = Invalid
                         THEN Invalid ELSE PyList(items)
           [] op = "health" -> result

\* transcribe_file / transcribe_batch (43-89): the direct path when the
\* manager is not available or rpc_call raises RuntimeError (rabbitmq.py
\* 142-144), the broker path otherwise.
FacadeTranscribe ==
    /\ codec.stage = "idle"
    /\ codec.op \in Operations
    /\ IF is_available /\ producer_channel # "none" /\ callback_queue # "none"
       THEN /\ codec.result["broker"] = Unset
            /\ codec' = [codec EXCEPT
                  !.queue = QueueOf("asr"),
                  !.wire = JsonDumps(CallPayload(codec.op, codec.request)),
                  !.stage = "published"]
       ELSE /\ codec.result["direct"] = Unset
            /\ codec' = [codec EXCEPT
                  !.served["direct"] = codec.request,
                  !.result["direct"] = ServiceResult(codec.op, codec.output)]
    /\ UNCHANGED <<mgrVars, rpcVars, brokerVars, workerVars>>

\* An LLM operation (145-173): always _call, hence rpc_call (rabbitmq.py
\* 142-170): ensure_ready raises when disabled and waits while not ready.
FacadeLlm ==
    /\ codec.stage = "idle"
    /\ codec.op \in LlmOperations
    /\ codec.result["broker"] = Unset
    /\ IF EnsureReadyRaises
       THEN codec' = [codec EXCEPT !.result["broker"] = [t |-> "RuntimeError"]]
       ELSE /\ ready
            /\ IF producer_channel = "none" \/ callback_queue = "none"
               THEN codec' = [codec EXCEPT !.result["broker"] = [t |-> "RuntimeError"]]
               ELSE codec' = [codec EXCEPT
                       !.queue = QueueOf("llm"),
                       !.wire = JsonDumps(LlmPayload(codec.op, codec.request)),
                       !.stage = "published"]
    /\ UNCHANGED <<mgrVars, rpcVars, brokerVars, workerVars>>

\* _consume (226-247) with the ASR handler (252-280): decode the request,
\* rebuild the TranscriptionRequest, run the service, publish the envelope;
\* the broker drops it if the reply queue is gone. A response that
\* json.dumps rejects (240) is never published.
AsrHandle ==
    /\ codec.stage = "published"
    /\ codec.queue = "asr"
    /\ LET payload == JsonLoads(codec.wire)
           action == payload.members["action"].s
           request == IF action \notin Operations THEN Unset
                      ELSE ModelValidate("TranscriptionRequest",
                                         payload.members["request"])
           response == IF action \notin Operations
                       THEN ErrorEnvelope("Unknown ASR action")
                       ELSE IF request = Invalid THEN ErrorEnvelope("validation")
                       ELSE OkEnvelope(ServiceResult(codec.op, codec.output))
           body == JsonDumps(response)
           routed == ReplyQueueLive /\ body # JsonTypeError
       IN codec' = [codec EXCEPT !.served["broker"] = request,
                                 !.wire = IF routed THEN body ELSE NoWire,
                                 !.stage = IF routed THEN "replied" ELSE "lost"]
    /\ UNCHANGED <<mgrVars, rpcVars, brokerVars, workerVars>>

\* _consume (226-247) with the LLM handler (283-326).
LlmHandle ==
    /\ codec.stage = "published"
    /\ codec.queue = "llm"
    /\ LET payload == JsonLoads(codec.wire)
           action == payload.members["action"].s
           request == IF action \notin LlmOperations \ {"health"} THEN Unset
                      ELSE ModelValidate(LlmRequestClass(action),
                                         payload.members["request"])
           response == IF action \notin LlmOperations
                       THEN ErrorEnvelope("Unknown LLM action")
                       ELSE IF request = Invalid THEN ErrorEnvelope("validation")
                       ELSE LlmOkEnvelope(action, codec.output)
           body == JsonDumps(response)
           routed == ReplyQueueLive /\ body # JsonTypeError
       IN codec' = [codec EXCEPT !.served["broker"] = request,
                                 !.wire = IF routed THEN body ELSE NoWire,
                                 !.stage = IF routed THEN "replied" ELSE "lost"]
    /\ UNCHANGED <<mgrVars, rpcVars, brokerVars, workerVars>>

\* _on_response (201-219) resolves the future with the decoded envelope;
\* _call unwraps it and the facade validates the result.
FacadeReturn ==
    /\ codec.stage = "replied"
    /\ ReplyQueueLive
    /\ "reply" \in consuming
    /\ codec' = [codec EXCEPT
          !.result["broker"] =
              IF codec.op \in Operations
              THEN Unwrap(codec.op, JsonLoads(codec.wire))
              ELSE LlmUnwrap(codec.op, JsonLoads(codec.wire)),
          !.wire = NoWire,
          !.stage = "idle"]
    /\ UNCHANGED <<mgrVars, rpcVars, brokerVars, workerVars>>

\* rpc_call times out (172-184) and _call raises HTTP 504 (102-103, 186-187).
FacadeTimeout ==
    /\ codec.stage \in {"published", "replied", "lost"}
    /\ codec' = [codec EXCEPT
          !.result["broker"] =
              HttpError(504, IF codec.op \in Operations THEN "ASR request timed out"
                             ELSE "LLM request timed out"),
          !.wire = NoWire,
          !.stage = "idle"]
    /\ UNCHANGED <<mgrVars, rpcVars, brokerVars, workerVars>>

NoCodec == [op |-> "none", request |-> Unset, output |-> Unset, stage |-> "off",
            queue |-> "none", wire |-> NoWire, served |-> [p \in Paths |-> Unset],
            result |-> [p \in Paths |-> Unset]]

\* ------------------------------------------------------------ specification
NoCall == [pc |-> "idle", facade |-> "none", id |-> NoId, fut |-> "none",
           env |-> "none", val |-> NoId, rpc |-> "none", out |-> "none",
           detail |-> "none"]

NoDelivery == [tag |-> 0, q |-> "none", gen |-> 0, cid |-> NoId, reply_to |-> NoReply,
               body |-> "none", pc |-> "none", hres |-> "none", pub |-> "none",
               ack |-> "none"]

\* RabbitMQManager.__init__ (32-51) and an empty broker.
Constructed ==
    /\ disabled_reason = "none"
    /\ ready = FALSE
    /\ connection = "none"
    /\ producer_channel = "none"
    /\ consumer_channel = "none"
    /\ callback_queue = "none"
    /\ consuming = {}
    /\ mgr = Idle
    /\ starts = 0
    /\ futures = <<>>
    /\ nextId = 1
    /\ registered = {}
    /\ call = [c \in Calls |-> NoCall]
    /\ workq = [q \in Queues |-> <<>>]
    /\ replyq = {}
    /\ cb = [id |-> NoId, what |-> "none"]
    /\ injected = 0
    /\ foreign = 0
    /\ inflight = {}
    /\ last = NoDelivery
    /\ nextTag = 1

Init == Constructed /\ codec = NoCodec

\* The manager's lifecycle, driven by the hosting process.
Lifecycle ==
    \/ Start
    \/ StartStep
    \/ StartFail
    \/ Close
    \/ Disable
    \/ CloseStep

\* The request-handling tier: facade calls, rpc_call, the reply callback, and
\* the worker pool seen from the client through the broker.
Next ==
    \/ Lifecycle
    \/ \E c \in Calls, f \in Facades : FacadeCall(c, f)
    \/ \E c \in Calls : RpcResume(c)
    \/ \E c \in Calls : PublishReturn(c)
    \/ \E c \in Calls, e \in {"RuntimeError:channel", "AMQPError"} : PublishRaise(c, e)
    \/ \E c \in Calls : RpcReturn(c)
    \/ \E c \in Calls : TimerFire(c)
    \/ \E c \in Calls : RpcTimeout(c)
    \/ \E c \in Calls : TaskCancel(c)
    \/ \E c \in Calls, r \in {"ok", "raise"} : DirectDone(c, r)
    \/ \E m \in replyq : OnResponse(m)
    \/ \E id \in {NoId} \cup Ids, b \in ReplyBodies : InjectReply(id, b)
    \/ \E q \in Queues, e \in Envelopes : WorkerReplies(q, e)

Spec == Init /\ [][Next]_vars

\* The worker tier: the dispatch loop of this process consuming the two work
\* queues, with the requests of any client arriving through the broker.
WorkerNext ==
    \/ Lifecycle
    \/ \E q \in Queues, rt \in 0..MaxStarts, b \in RequestBodies : InjectRequest(q, rt, b)
    \/ \E q \in Queues : Deliver(q)
    \/ \E d \in inflight, h \in HandlerOutcomes : HandlerDone(d, h)
    \/ \E d \in inflight : ReplyDone(d)
    \/ \E d \in inflight : ReplyRaise(d)

WorkerSpec == Init /\ [][WorkerNext]_vars

\* One request, with the output the service gives for it: an ASR request
\* submitted to the facade while the manager is available and while it is
\* not, or an LLM request.
CodecInit ==
    /\ Constructed
    /\ codec \in {[NoCodec EXCEPT !.op = op, !.request = r, !.output = o,
                                  !.stage = "idle"] :
                     op \in Operations, r \in Requests, o \in Outputs}
                \cup UNION {{[NoCodec EXCEPT !.op = op, !.request = r, !.output = o,
                                             !.stage = "idle"] :
                                r \in LlmRequests(op), o \in LlmOutputs(op)} :
                             op \in LlmOperations}

CodecNext ==
    \/ Lifecycle
    \/ FacadeTranscribe
    \/ FacadeLlm
    \/ AsrHandle
    \/ LlmHandle
    \/ FacadeReturn
    \/ FacadeTimeout

CodecSpec == CodecInit /\ [][CodecNext]_vars

\* The client tier under the scheduling the event loop gives: a finite
\* wait_for timeout expires (TimerFire), and a task that was made runnable
\* by the timeout or by the resolution of its future is run (RpcTimeout,
\* RpcReturn). Nothing is assumed of the broker, the workers, the manager's
\* lifecycle or the caller.
LiveCalls == 1..MaxLiveCalls

LiveNext ==
    \/ Lifecycle
    \/ \E c \in LiveCalls, f \in Facades : FacadeCall(c, f)
    \/ \E c \in LiveCalls : RpcResume(c)
    \/ \E c \in LiveCalls : PublishReturn(c)
    \/ \E c \in LiveCalls, e \in {"RuntimeError:channel", "AMQPError"} : PublishRaise(c, e)
    \/ \E c \in LiveCalls : RpcReturn(c)
    \/ \E c \in LiveCalls : TimerFire(c)
    \/ \E c \in LiveCalls : RpcTimeout(c)
    \/ \E c \in LiveCalls : TaskCancel(c)
    \/ \E c \in LiveCalls, r \in {"ok", "raise"} : DirectDone(c, r)
    \/ \E m \in replyq : OnResponse(m)
    \/ \E id \in {NoId} \cup Ids, b \in ReplyBodies : InjectReply(id, b)
    \/ \E q \in Queues, e \in Envelopes : WorkerReplies(q, e)

LiveSpec ==
    /\ Init
    /\ [][LiveNext]_vars
    /\ \A c \in LiveCalls : /\ WF_vars(TimerFire(c))
                            /\ WF_vars(RpcTimeout(c))
                            /\ WF_vars(RpcReturn(c))

\* ================================================================== claims
\* rpc_call has been entered by call c in this step (from the facade).
RpcEntered(c) ==
    /\ call[c].pc = "idle"
    /\ \/ call'[c].rpc # "none"
       \/ call'[c].pc \in {"wait_ready", "publishing"}

\* _on_response runs for reply m in this step.
Responded(m) ==
    /\ m \in replyq
    /\ replyq' = replyq \ {m}
    /\ callback_queue' = callback_queue

\* The correlation ids of the requests on the work queues.
Requested ==
    UNION {{workq[q][i].cid : i \in 1..Len(workq[q])} : q \in Queues} \ {NoId}

\* call c is waiting in wait_for for the reply to its request.
Pending(c) == call[c].pc = "waiting" /\ call[c].fut = "pending"

\* C1: once disable(reason) has run, no rpc_call that was waiting for a reply
\* is still waiting: each has failed with a connectivity error.
C1_DisableFailsPending ==
    (disabled_reason # "none" /\ mgr = Idle) => \A c \in Calls : ~Pending(c)

\* C2: once rpc_call has returned or raised, by any path, its correlation id
\* is not a key of the pending map.
C2_NoDanglingSlot ==
    \A c \in Calls : call[c].rpc # "none" => call[c].id \notin DOMAIN futures

\* C3: a slot that is completed or cancelled is never changed again, and the
\* callback never attempts to resolve such a slot (Future.set_exception or
\* set_result on a done future raises InvalidStateError).
C3_NoDoubleResolve ==
    /\ [][\A c \in Calls : FutDone(call[c].fut) => call'[c].fut = call[c].fut]_vars
    /\ [](cb.what # "raised_InvalidStateError")

\* C4: the request carrying a correlation id is put on a work queue only in
\* a step that leaves the id registered in the pending map, and every id on
\* a work queue or in a reply to a request has been registered.
C4_RegisterBeforePublish ==
    /\ [][\A id \in Ids : (id \in Requested' /\ id \notin Requested)
                             => id \in DOMAIN futures']_vars
    /\ [](Requested \subseteq registered)
    /\ [](\A m \in replyq : m.cid # NoId => m.cid \in registered)

\* C4 witness: the reply to a request is on the reply queue while the publish
\* of that request has not yet returned to rpc_call, and its slot is there.
C4_Witness ==
    \E m \in replyq : /\ m.cid \in DOMAIN futures
                      /\ call[futures[m.cid]].pc = "publishing"

\* C5 as claimed: whenever is_available is false, an rpc_call that is entered
\* raises a connectivity error at once, registering and publishing nothing.
C5_FailFastWhenUnavailable ==
    [][\A c \in Calls : (RpcEntered(c) /\ ~is_available)
          => /\ IsRuntimeError(call'[c].rpc)
             /\ futures' = futures
             /\ workq' = workq]_vars

\* C5 amended: an rpc_call entered while a disable reason is set raises
\* RuntimeError at once; one entered while no reason is set and the manager is
\* not ready (never started, starting, closed) waits for the manager to become
\* ready; in both cases nothing is registered or published by the entry.
C5_FailFastWhenDisabled ==
    [][\A c \in Calls : (RpcEntered(c) /\ ~is_available)
          => /\ disabled_reason # "none" => call'[c].rpc = "RuntimeError:disabled"
             /\ disabled_reason = "none" => call'[c].pc = "wait_ready"
             /\ futures' = futures
             /\ workq' = workq]_vars

\* C5 witness: one call was refused because the manager is disabled while
\* another, entered before, is still waiting for the manager to become ready.
C5_Witness ==
    /\ disabled_reason # "none"
    /\ \E c \in Calls : call[c].rpc = "RuntimeError:disabled"
    /\ \E c \in Calls : call[c].pc = "wait_ready"

\* C6: after rpc_call raised TimeoutError its correlation id is not in the
\* pending map, and a reply for that id consumed afterwards is dropped: the
\* callback returns normally, the pending map and every call are unchanged.
C6_TimeoutThenLateReplyDropped ==
    /\ [](\A c \in Calls : call[c].rpc = "TimeoutError" => call[c].id \notin DOMAIN futures)
    /\ [][\A m \in replyq, c \in Calls :
            (Responded(m) /\ call[c].rpc = "TimeoutError" /\ m.cid = call[c].id)
               => /\ cb' = [id |-> m.cid, what |-> "dropped_unexpected"]
                  /\ futures' = futures
                  /\ call' = call]_vars

\* C6 witness: a call timed out and the worker's reply to it, the only reply
\* there is, was then dropped as unexpected.
C6_Witness ==
    /\ injected = 0
    /\ \E c \in Calls : /\ call[c].rpc = "TimeoutError"
                        /\ cb = [id |-> call[c].id, what |-> "dropped_unexpected"]

\* C7: a delivery that decoded and carries a reply address, and whose handler
\* raised, has had its error response published and has been acknowledged.
C7_ErrorAlwaysReplies ==
    (last.pc = "done" /\ last.body = "object" /\ last.reply_to # NoReply
        /\ last.hres = "raise")
       => (last.pub = "done" /\ last.ack = "acked")

\* C8: a delivery is not acknowledged while the publication of its response
\* is still to complete: in flight it is unacknowledged, and an acknowledged
\* delivery whose response was handed to publish has had that publish return.
C8_AckAfterPublish ==
    /\ \A d \in inflight : d.ack = "none"
    /\ last.ack = "acked" => last.pub \in {"none", "skipped", "done"}

\* C8 witness: a delivery with a reply address was acknowledged after its
\* response was published.
C8_Witness ==
    last.reply_to # NoReply /\ last.pub = "done" /\ last.ack = "acked"

\* C9: one consumer (one work queue, one consumer channel) has at most one
\* delivery between its dispatch and the end of its acknowledge cycle, so
\* handler executions of one consumer never overlap.
C9_HandlersSerialized ==
    \A q \in Queues, g \in 1..MaxStarts :
        Cardinality({d \in inflight : d.q = q /\ d.gen = g}) <= 1

\* C9 witness: a request waits on a work queue whose consumer is live while
\* the handler of the previous delivery of that queue is still running.
C9_Witness ==
    \E d \in inflight : /\ d.pc = "handling"
                        /\ d.gen = starts
                        /\ d.q \in consuming
                        /\ ConsumerUsable
                        /\ workq[d.q] # <<>>

\* C10: a facade operation called while the manager is unavailable runs the
\* service directly in-process.
C10_FallbackWhenUnavailable ==
    [][\A c \in Calls : (call[c].pc = "idle" /\ call'[c].pc # "idle" /\ ~is_available)
          => call'[c].pc = "direct"]_vars

\* C11: for the same request and the same service output, the ASR facade
\* returns the same result, computed from the same request, on the broker
\* path (manager available, reply received) and on the direct path (manager
\* not available).
C11_PathsAgree ==
    (codec.result["broker"] # Unset /\ codec.result["direct"] # Unset
        /\ codec.result["broker"].t # "HTTPException")
        => /\ codec.result["broker"] = codec.result["direct"]
           /\ codec.served["broker"] = codec.served["direct"]
           /\ codec.result["direct"] = ServiceResult(codec.op, codec.output)

C11_Witness ==
    /\ codec.result["broker"].t = "model"
    /\ codec.result["direct"] # Unset
    /\ codec.op = "transcribe_batch"
    /\ codec.output.fields["segments"] = PyList(<<Segment>>)
    /\ codec.request.fields["word_timestamps"] = PyBool(TRUE)
    /\ disabled_reason = "reason"

\* C12: a facade whose rpc_call returns an envelope with status "error"
\* raises HTTP 502 whose detail is the envelope's error string, returns no
\* result, and takes no further step: the step that raises publishes
\* nothing, and the call neither re-issues the request nor runs the service
\* directly afterwards.
C12_Raised(c) ==
    /\ call[c].rpc = "returned"
    /\ call[c].env = "error"

C12_ErrorEnvelopeRaisesOnce ==
    [][\A c \in Calls :
        /\ C12_Raised(c) =>
              /\ call[c].pc = "done"
              /\ call[c].out = "HTTP502_error"
              /\ call[c].detail = ErrorOf(call[c].env)
              /\ call'[c] = call[c]
        /\ (~C12_Raised(c) /\ C12_Raised(c)') =>
              /\ workq' = workq
              /\ nextId' = nextId]_vars

C12_Witness ==
    \E c, d \in Calls :
        /\ call[c].facade = "asr" /\ C12_Raised(c) /\ call[c].out = "HTTP502_error"
        /\ call[d].facade = "llm" /\ C12_Raised(d) /\ call[d].out = "HTTP502_error"

\* C13: two facade calls that fail for different kinds of reason (no
\* connectivity, an undecodable or empty response, a timeout, a failure
\* reported by the handler) reach their callers with a different exception
\* type or status code.
FailureKind(c) ==
    CASE call[c].pc # "done" -> "none"
      [] call[c].out = "RuntimeError" -> "connectivity"
      [] IsRuntimeError(call[c].rpc) -> "none"       \* ASR ran the service directly
      [] call[c].rpc = "JSONDecodeError" -> "protocol"
      [] call[c].rpc = "TimeoutError" -> "timeout"
      [] call[c].rpc = "returned" /\ call[c].env = "error" -> "remote_execution"
      [] call[c].rpc = "returned" /\ call[c].out = "HTTP502_empty" -> "protocol"
      [] OTHER -> "none"

C13_FailuresDistinguishable ==
    \A c, d \in Calls :
        (FailureKind(c) # "none" /\ FailureKind(d) # "none"
            /\ FailureKind(c) # FailureKind(d))
        => Reported(call[c].out) # Reported(call[d].out)

\* C14: a facade whose rpc_call returns an envelope with status "ok" and a
\* result that is null or absent raises HTTP 502 "returned empty result";
\* it never hands such a result to its caller.
C14_EmptyResultRaises ==
    \A c \in Calls :
        (call[c].rpc = "returned" /\ call[c].env \in {"ok_null", "ok_missing"})
        => call[c].out = "HTTP502_empty"

\* C15: whatever the order in which replies arrive, a reply resolves only
\* the call whose correlation id it carries, with its own envelope and
\* payload; a call that returns holds the payload computed for its own
\* request, never that of another call.
C15_ResolvesOwner(m) ==
    \A c \in Calls :
        \/ call'[c] = call[c]
        \/ /\ call[c].id = m.cid
           /\ call'[c].fut = "exception"
        \/ /\ call[c].id = m.cid
           /\ call'[c].fut = "result"
           /\ call'[c].env = m.env
           /\ call'[c].val = m.val

C15_OwnReplyOnly ==
    [][(\A m \in replyq : Responded(m) => C15_ResolvesOwner(m))
       /\ (\A c \in Calls :
              call'[c].rpc = "returned" => call'[c].val = call'[c].id)]_vars

\* Two calls outstanding together; the reply to the later one arrived and
\* was returned first, the reply to the earlier one has just resolved it.
C15_Witness ==
    /\ call[1].id = 1 /\ call[2].id = 2
    /\ call[2].rpc = "returned" /\ call[2].val = 2
    /\ cb = [id |-> 1, what |-> "set_result"]
    /\ call[1].pc = "waiting" /\ call[1].fut = "result" /\ call[1].val = 1
    /\ call[1].env # call[2].env
    /\ injected = 0

\* C16: a reply whose correlation id matches a pending slot leaves that
\* slot's future resolved, with the decoded envelope or with an error, and
\* the callback returns normally.
C16_MatchedReplyResolves ==
    [][\A m \in replyq :
         (Responded(m) /\ m.cid \in DOMAIN futures
            /\ call[futures[m.cid]].fut = "pending")
         => /\ cb'.what \in {"set_result", "set_exception"}
            /\ call'[futures[m.cid]].fut \in {"result", "exception"}]_vars

\* C17: a reply with no correlation id, or with one that matches no pending
\* slot, is dropped: the callback returns normally, the pending map and
\* every call are as before.
C17_UnmatchedReplyDropped ==
    [][\A m \in replyq :
         (Responded(m) /\ (m.cid = NoId \/ m.cid \notin DOMAIN futures))
         => /\ cb'.what \in {"dropped_no_id", "dropped_unexpected"}
            /\ futures' = futures
            /\ call' = call]_vars

\* The duplicate of a reply that was already returned is dropped while
\* another call is pending.
C17_Witness ==
    /\ cb.what = "dropped_unexpected"
    /\ \E c, d \in Calls :
         /\ call[c].id = cb.id /\ call[c].rpc = "returned"
         /\ Pending(d) /\ call[d].id \in DOMAIN futures

\* C18: when close() returns (called directly or by disable), the reply
\* queue, both channels and the connection are gone and the manager is not
\* ready; and in such a state close() can be called, has no teardown
\* operation to perform and leaves every field as it is.
TornDown ==
    /\ callback_queue = "none"
    /\ producer_channel = "none"
    /\ consumer_channel = "none"
    /\ connection = "none"
    /\ consuming = {}

CloseReturns == mgr.op \in {"close", "disable"} /\ mgr' = Idle

C18_CloseIdempotent ==
    /\ []((mgr = Idle /\ TornDown /\ ~ready) =>
            /\ ENABLED Close
            /\ NextClosePc(callback_queue, producer_channel,
                           consumer_channel, connection) = "end"
            /\ CloseReady("end", ready) = ready)
    /\ [][CloseReturns => (TornDown' /\ ~ready')]_vars

\* close() has returned after tearing down a manager that had served a
\* request over the broker.
C18_Witness ==
    /\ codec.result["broker"].t = "model"
    /\ mgr = Idle
    /\ TornDown
    /\ ~ready
    /\ disabled_reason = "none"

\* C19: is_available is true exactly when start() has completed, nothing
\* it set up has been torn down since, and no disable reason is set.
ManagerReady ==
    /\ ready
    /\ callback_queue = "open"
    /\ producer_channel = "open"
    /\ consumer_channel = "open"
    /\ connection = "open"

C19_AvailableIffReady ==
    is_available <=> (ManagerReady /\ disabled_reason = "none")

\* C20: start() sets the manager ready only with the reply queue and both
\* work queues declared and consumed; a start() that fails leaves the
\* manager unavailable, with no connection, channel or reply queue kept.
StartCompletes == ~ready /\ ready'

StartFails == mgr.op = "start" /\ mgr' = Idle /\ ~ready'

C20_StartAllOrNothing ==
    [][/\ StartCompletes =>
             /\ consuming' = {"reply", "asr", "llm"}
             /\ callback_queue' = "open"
             /\ producer_channel' = "open"
             /\ consumer_channel' = "open"
       /\ StartFails =>
             /\ ~is_available'
             /\ connection' = "none"
             /\ producer_channel' = "none"
             /\ consumer_channel' = "none"
             /\ callback_queue' = "none"]_vars

\* C21 as claimed: once disable(reason) has been called, or close() has
\* returned, is_available becomes true again only by start(), and every
\* rpc_call entered meanwhile raises a connectivity error and publishes
\* nothing.
C21_Down ==
    \/ disabled_reason # "none"
    \/ mgr = Idle /\ TornDown /\ ~ready /\ registered # {}

C21_DownCallsRaise ==
    [][/\ (~is_available /\ is_available') => mgr.op = "start"
       /\ \A c \in Calls : (RpcEntered(c) /\ C21_Down)
             => /\ IsRuntimeError(call'[c].rpc)
                /\ workq' = workq]_vars

\* C21 amended: is_available is false when close() returns and becomes true
\* again only by start(); a disable reason is cleared only by start(); an
\* rpc_call entered while a reason is set raises RuntimeError and publishes
\* nothing; one entered after a plain close() publishes nothing either, but
\* waits for the next start() instead of raising.
C21_DownUntilStart ==
    [][/\ (~is_available /\ is_available') => mgr.op = "start"
       /\ (disabled_reason # "none" /\ disabled_reason' = "none")
             => (mgr = Idle /\ mgr'.op = "start")
       /\ CloseReturns => ~is_available'
       /\ \A c \in Calls : (RpcEntered(c) /\ C21_Down)
             => /\ disabled_reason # "none" => call'[c].rpc = "RuntimeError:disabled"
                /\ disabled_reason = "none" => call'[c].pc = "wait_ready"
                /\ workq' = workq
                /\ futures' = futures]_vars

\* An LLM call was refused after disable(reason) tore down a manager that
\* had published a request.
C21_Witness ==
    /\ disabled_reason # "none" /\ mgr = Idle /\ TornDown
    /\ registered # {}
    /\ \E c \in Calls : call[c].rpc = "RuntimeError:disabled" /\ call[c].facade = "llm"

\* C22: a delivery whose body does not decode is dropped in the step that
\* delivers it: it leaves the work queue, no handler is started for it, no
\* response is published, it holds no prefetch slot, and it is settled
\* (acknowledged, or rejected without requeue) unless the consumer channel
\* is being closed under it.
C22_BadDelivered(q) ==
    /\ nextTag' # nextTag
    /\ workq[q] # <<>>
    /\ workq'[q] = Tail(workq[q])
    /\ Head(workq[q]).body \in {"badjson", "badutf8"}

C22_UndecodableDropped ==
    [][\A q \in Queues : C22_BadDelivered(q) =>
          /\ inflight' = inflight
          /\ replyq' = replyq
          /\ last'.body = Head(workq[q]).body
          /\ last'.hres = "none"
          /\ last'.pub = "none"
          /\ last'.ack \in {"acked", "rejected", "ack_failed"}
          /\ ConsumerUsable => last'.ack \in {"acked", "rejected"}]_vars

\* A body that is not UTF-8 was rejected, and the next delivery of the same
\* consumer is with its handler.
C22_Witness ==
    /\ last.body = "badutf8"
    /\ last.ack = "rejected"
    /\ \E d \in inflight : /\ d.q = last.q
                           /\ d.gen = last.gen
                           /\ d.pc = "handling"

\* C23: the response _consume publishes for a delivery goes to that
\* delivery's reply address with that delivery's correlation id; for a
\* delivery without a reply address nothing is published and _consume
\* leaves message.process() normally, which acknowledges the delivery.
C23_HandlerEnds(d) ==
    /\ d \in inflight
    /\ d.pc = "handling"
    /\ d \notin inflight'

C23_ReplyToSender ==
    [][\A d \in inflight : C23_HandlerEnds(d) =>
          /\ \A r \in replyq' \ replyq :
                /\ r.cid = d.cid
                /\ d.reply_to # NoReply
                /\ d.reply_to = starts
          /\ d.reply_to = NoReply =>
                /\ replyq' = replyq
                /\ last'.cid = d.cid
                /\ last'.pub = "skipped"
                /\ last'.ack \in {"acked", "ack_failed"}
                /\ (ConsumerUsable /\ d.gen = starts) => last'.ack = "acked"]_vars

\* A response is on the reply queue with the correlation id of the second
\* request, while the first request, which had no reply address, has been
\* answered by nothing.
C23_Witness ==
    /\ \E r \in replyq : r.cid = 2
    /\ \A r \in replyq : r.cid # 1
    /\ \E d \in inflight : d.cid = 2 /\ d.pc = "replying" /\ d.reply_to = starts
    /\ last.cid = 1 /\ last.reply_to = NoReply /\ last.hres = "ok"
    /\ last.pub = "skipped" /\ last.ack = "acked"

\* C24: no two calls hold the same correlation id, every slot of the
\* pending map belongs to the call that holds its id, and a slot that is in
\* the map is never overwritten: a new slot takes an id never used before.
C24_UniqueCorrelationIds ==
    /\ [](\A c, d \in Calls :
            (c # d /\ call[c].id # NoId) => call[c].id # call[d].id)
    /\ [](\A id \in DOMAIN futures : call[futures[id]].id = id)
    /\ [][/\ \A k \in DOMAIN futures \cap DOMAIN futures' : futures'[k] = futures[k]
          /\ \A k \in DOMAIN futures' \ DOMAIN futures : k \notin registered]_vars

\* Two calls are waiting together, each with its own slot.
C24_Witness ==
    /\ Pending(1) /\ Pending(2)
    /\ DOMAIN futures = {call[1].id, call[2].id}
    /\ call[1].facade = call[2].facade

\* C25: an LLM operation never runs in-process; its request is published to
\* the LLM queue with the operation's own action string; and what it
\* returns, when it returns a value, is the validated result of the ok
\* envelope, equal to what the service returned.
C25_LlmThroughLlmQueue ==
    codec.op \in LlmOperations =>
        /\ codec.result["direct"] = Unset
        /\ codec.stage = "published" =>
              /\ codec.queue = "llm"
              /\ JsonLoads(codec.wire).members["action"] = PyStr(codec.op)
        /\ codec.result["broker"].t \notin {"unset", "RuntimeError", "HTTPException"}
              => codec.result["broker"] = codec.output

\* summarize returned a SummarizationResponse with token counts and duration.
C25_Witness ==
    /\ codec.op = "summarize"
    /\ codec.result["broker"].t = "model"
    /\ codec.result["broker"].cls = "SummarizationResponse"
    /\ codec.result["broker"].fields["prompt_tokens"] = PyInt(1)
    /\ codec.result["broker"].fields["duration_ms"] = PyFloat(2)
    /\ codec.served["broker"] = codec.request

\* C26: an ASR operation is dispatched through rpc_call, whether or not
\* start() has run: it never runs in-process, its request goes to the ASR
\* queue with the operation's name as action, and transcribe_batch returns a
\* BatchTranscriptionResponse when it returns a value.
C26_AsrThroughAsrQueue ==
    codec.op \in Operations =>
        /\ codec.result["direct"] = Unset
        /\ codec.stage = "published" =>
              /\ codec.queue = "asr"
              /\ JsonLoads(codec.wire).members["action"] = PyStr(codec.op)
        /\ (/\ codec.op = "transcribe_batch"
            /\ codec.result["broker"].t \notin {"unset", "HTTPException"})
              => /\ codec.result["broker"].t = "model"
                 /\ codec.result["broker"].cls = "BatchTranscriptionResponse"

\* C27: whenever is_available is true, also between the steps of start(),
\* close() and disable(), the producer channel and the reply queue exist.
C27_AvailableImpliesUsable ==
    is_available => (producer_channel # "none" /\ callback_queue # "none")

\* C28: a delivery that decoded, carried a reply address and was
\* acknowledged has had its response published, whatever the handler's
\* outcome and whatever close() or disable() did meanwhile.
C28_AckedImpliesReplied ==
    (last.pc = "done" /\ Decodes(last.body) /\ last.reply_to # NoReply
        /\ last.ack = "acked")
       => last.pub = "done"

\* C29: a call whose request was published (the awaited publish returned
\* and the call waits for its future) eventually leaves rpc_call, with a
\* result or an exception, whatever else happens meanwhile.
C29_PublishedCallCompletes ==
    \A c \in LiveCalls : (call[c].pc = "waiting") ~> (call[c].rpc # "none")

\* A call ended by its timeout after the manager was torn down under it.
C29_Witness ==
    \E c \in LiveCalls :
        /\ call[c].rpc = "TimeoutError"
        /\ call[c].id \in registered
        /\ connection = "none"
        /\ ~ready

====
